---- MODULE Spec2Model ----
(***************************************************************************)
(* Conditional field visibility of the form builder.                       *)
(*                                                                         *)
(* evaluateConditionalLogic (src/components/ConditionalLogicEditor.tsx)    *)
(* decides whether the field carrying a rule is shown, from the rule, the  *)
(* answers entered so far and the form's fields.  JavaScript values are    *)
(* tagged records; strings are sequences of one-character strings, so that *)
(* String(), toLowerCase() and includes() are computed, not assumed.       *)
(***************************************************************************)
EXTENDS Integers, Sequences, FiniteSets, TLC

VARIABLES
  \* one call of evaluateConditionalLogic: its arguments and its outcome
  logic, formData, fields, result,
  \* one mounted ConditionalLogicEditor: its props, its state, and the rule it
  \* last passed to onUpdate
  fieldId, conditionalLogic, otherFields, isOpen, onUpdated,
  \* one invocation of the generate-form-fields function: the request, the
  \* LOVABLE_API_KEY of its environment, its position, the requests it has sent
  \* to the AI gateway, the gateway's answer, and the responses it has returned
  req, apiKey, edgePc, gatewayRequests, gatewayAnswer, responses,
  \* the store: the forms rows, the form_fields rows and the form_submissions
  \* rows
  forms, form_fields, form_submissions,
  \* one mounted PublicForm page: the slug of its route, the tables whose
  \* queries the store rejects while it loads, the position of loadForm, its
  \* state, the answers captured by the handleSubmit call under way, and the
  \* last toast
  slug, rejects, loadPc, pubForm,
  isLoading, pubError, pubFields, pubFormData, isSubmitting, isSubmitted,
  submission_data, pubToast,
  \* one mounted FormBuilder with its FormPreview: the local field list, the
  \* preview's answers, the addField and deleteField calls under way (each
  \* with the field list of the render that started it), the number of
  \* fields added so far, the ids whose deleteField has succeeded, the last
  \* toast, the store's answer to the call that settled last, and whether the
  \* store has rejected any call
  builderFields, previewData, inFlight, added, deleted,
  builderToast, lastAnswer, anyRejected,
  \* one mounted Auth page: its state, the signIn or signUp call under way
  \* and the last toast
  isLogin, authEmail, authPassword, authLoading, authCall, authToast,
  \* one mounted FormAnalytics page: the submissions it lists, the position
  \* of loadData, the rows its query read at the store, whether its realtime
  \* channel has joined, and the INSERT notifications on their way to it
  submissions, analyticsPc, snapshot, subscribed, notifications,
  \* one mounted Index page: its state, the handleGenerate runs under way,
  \* the last toast, and the number of forms the store has created
  formName, isGenerating, currentFormId, runs, indexToast, created

evalVars == <<logic, formData, fields, result>>
editorVars == <<fieldId, conditionalLogic, otherFields, isOpen, onUpdated>>

edgeVars == <<req, apiKey, edgePc, gatewayRequests, gatewayAnswer, responses>>

storeVars == <<forms, form_fields, form_submissions>>
publicVars == <<slug, rejects, loadPc, pubForm, isLoading, pubError, pubFields, pubFormData, isSubmitting, isSubmitted,
                submission_data, pubToast>>

builderVars == <<builderFields, previewData, inFlight, added, deleted,
                 builderToast, lastAnswer, anyRejected>>

authVars == <<isLogin, authEmail, authPassword, authLoading, authCall, authToast>>
analyticsVars == <<submissions, analyticsPc, snapshot, subscribed, notifications>>
indexVars == <<formName, isGenerating, currentFormId, runs, indexToast, created>>

vars == <<evalVars, editorVars, edgeVars, storeVars, publicVars, builderVars,
          authVars, analyticsVars, indexVars>>

(***************************************************************************)
(* Bounds                                                                  *)
(***************************************************************************)
\* numeric answers range over 0..MaxNum
MaxNum == 1

(***************************************************************************)
(* JavaScript values                                                       *)
(***************************************************************************)
\* every value has the same shape, so that any two can be compared; t is the
\* type tag, and only the component of that type carries meaning
Undefined == [t |-> "undefined", s |-> <<>>, n |-> 0, b |-> FALSE]
Null == [t |-> "null", s |-> <<>>, n |-> 0, b |-> FALSE]
Str(s) == [t |-> "string", s |-> s, n |-> 0, b |-> FALSE]
Bool(b) == [t |-> "boolean", s |-> <<>>, n |-> 0, b |-> b]
Num(n) == [t |-> "number", s |-> <<>>, n |-> n, b |-> FALSE]

IsString(x) == x.t = "string"

UpperCase ==
  <<"A", "B", "C", "D", "E", "F", "G", "H", "I", "J", "K", "L", "M",
    "N", "O", "P", "Q", "R", "S", "T", "U", "V", "W", "X", "Y", "Z">>

LowerCase ==
  <<"a", "b", "c", "d", "e", "f", "g", "h", "i", "j", "k", "l", "m",
    "n", "o", "p", "q", "r", "s", "t", "u", "v", "w", "x", "y", "z">>

\* one character of String.prototype.toLowerCase
LowerChar(c) ==
  IF \E i \in 1..Len(UpperCase) : UpperCase[i] = c
    THEN LowerCase[CHOOSE i \in 1..Len(UpperCase) : UpperCase[i] = c]
    ELSE c

\* String.prototype.toLowerCase
toLowerCase(s) == [i \in 1..Len(s) |-> LowerChar(s[i])]

\* String.prototype.includes
includes(s, t) ==
  \E i \in 0..(Len(s) - Len(t)) : SubSeq(s, i + 1, i + Len(t)) = t

Digits == <<"0", "1", "2", "3", "4", "5", "6", "7", "8", "9">>

RECURSIVE NumberToString(_)
\* Number.prototype.toString for a non-negative integer
NumberToString(n) ==
  IF n < 10 THEN <<Digits[n + 1]>>
  ELSE NumberToString(n \div 10) \o <<Digits[(n % 10) + 1]>>

\* String(x)
String(x) ==
  CASE x.t = "string" -> x.s
    [] x.t = "number" -> NumberToString(x.n)
    [] x.t = "boolean" -> IF x.b THEN <<"t", "r", "u", "e">>
                                 ELSE <<"f", "a", "l", "s", "e">>
    [] x.t = "null" -> <<"n", "u", "l", "l">>
    [] x.t = "undefined" -> <<"u", "n", "d", "e", "f", "i", "n", "e", "d">>

\* ToBoolean(x): what `!x` and `x || y` test
Truthy(x) ==
  CASE x.t = "string" -> x.s # <<>>
    [] x.t = "number" -> x.n # 0
    [] x.t = "boolean" -> x.b
    [] x.t = "null" -> FALSE
    [] x.t = "undefined" -> FALSE

\* x || y
Or(x, y) == IF Truthy(x) THEN x ELSE y

\* obj[key]: a key the object does not hold reads as undefined
Get(obj, key) == IF key \in DOMAIN obj THEN obj[key] ELSE Undefined

(***************************************************************************)
(* Outcome of a call: a returned boolean, or a thrown TypeError (value is   *)
(* the returned boolean and carries no meaning for the other kinds)        *)
(***************************************************************************)
Return(b) == [kind |-> "return", value |-> b]
TypeError == [kind |-> "throw", value |-> FALSE]
Pending == [kind |-> "pending", value |-> FALSE]

(***************************************************************************)
(* The evaluator                                                           *)
(***************************************************************************)
\* what Array.prototype.find gives when no element matches (undefined)
NotFound == [found |-> FALSE, field |-> [id |-> "", field_name |-> ""]]

\* faulty variant of sourceField: an id that matches no field falls back to
\* the first field of the collection instead of undefined
sourceField_FallsBackToFirst(rule, fieldList) ==
  IF \E i \in 1..Len(fieldList) : fieldList[i].id = rule.sourceFieldId
    THEN LET i == CHOOSE k \in 1..Len(fieldList) :
                    /\ fieldList[k].id = rule.sourceFieldId
                    /\ \A j \in 1..(k - 1) : fieldList[j].id # rule.sourceFieldId
         IN  [found |-> TRUE, field |-> fieldList[i]]
    ELSE IF Len(fieldList) > 0 THEN [found |-> TRUE, field |-> fieldList[1]]
    ELSE NotFound

\* fields.find(f => f.id === logic.sourceFieldId): the first match, or undefined
sourceField(rule, fieldList) ==
  IF \E i \in 1..Len(fieldList) : fieldList[i].id = rule.sourceFieldId
    THEN LET i == CHOOSE k \in 1..Len(fieldList) :
                    /\ fieldList[k].id = rule.sourceFieldId
                    /\ \A j \in 1..(k - 1) : fieldList[j].id # rule.sourceFieldId
         IN  [found |-> TRUE, field |-> fieldList[i]]
    ELSE NotFound

\* String(sourceValue || "").toLowerCase()
sourceText(sourceValue) == toLowerCase(String(Or(sourceValue, Str(<<>>))))

\* faulty variant of conditionMet: not_equals compares the rule value without
\* lower-casing it
conditionMet_NotEqualsCaseSensitive(rule, sourceValue) ==
  LET targetValue == rule.value IN
  CASE rule.operator = "equals" ->
         IF ~IsString(targetValue) THEN TypeError
         ELSE Return(sourceText(sourceValue) = toLowerCase(targetValue.s))
    [] rule.operator = "not_equals" ->
         IF ~IsString(targetValue) THEN TypeError
         ELSE Return(sourceText(sourceValue) # targetValue.s)
    [] rule.operator = "contains" ->
         IF ~IsString(targetValue) THEN TypeError
         ELSE Return(includes(sourceText(sourceValue), toLowerCase(targetValue.s)))
    [] rule.operator = "not_empty" ->
         Return(/\ sourceValue # Undefined
                /\ sourceValue # Str(<<>>)
                /\ sourceValue # Null
                /\ sourceValue # Bool(FALSE))
    [] OTHER -> Return(FALSE)

\* faulty variant of conditionMet: not_empty tests the truthiness of the
\* answer (!!sourceValue), so the number 0 counts as empty
conditionMet_NotEmptyIsTruthy(rule, sourceValue) ==
  LET targetValue == rule.value IN
  CASE rule.operator = "equals" ->
         IF ~IsString(targetValue) THEN TypeError
         ELSE Return(sourceText(sourceValue) = toLowerCase(targetValue.s))
    [] rule.operator = "not_equals" ->
         IF ~IsString(targetValue) THEN TypeError
         ELSE Return(sourceText(sourceValue) # toLowerCase(targetValue.s))
    [] rule.operator = "contains" ->
         IF ~IsString(targetValue) THEN TypeError
         ELSE Return(includes(sourceText(sourceValue), toLowerCase(targetValue.s)))
    [] rule.operator = "not_empty" -> Return(Truthy(sourceValue))
    [] OTHER -> Return(FALSE)

\* faulty variant of conditionMet: not_empty lacks the test against undefined,
\* so an untouched field counts as filled in
conditionMet_NotEmptySkipsUndefined(rule, sourceValue) ==
  LET targetValue == rule.value IN
  CASE rule.operator = "equals" ->
         IF ~IsString(targetValue) THEN TypeError
         ELSE Return(sourceText(sourceValue) = toLowerCase(targetValue.s))
    [] rule.operator = "not_equals" ->
         IF ~IsString(targetValue) THEN TypeError
         ELSE Return(sourceText(sourceValue) # toLowerCase(targetValue.s))
    [] rule.operator = "contains" ->
         IF ~IsString(targetValue) THEN TypeError
         ELSE Return(includes(sourceText(sourceValue), toLowerCase(targetValue.s)))
    [] rule.operator = "not_empty" ->
         Return(/\ sourceValue # Str(<<>>)
                /\ sourceValue # Null
                /\ sourceValue # Bool(FALSE))
    [] OTHER -> Return(FALSE)

\* faulty variant of conditionMet: the rule value is lower-cased once, ahead
\* of the switch, so not_empty too needs a string value
conditionMet_LowersValueFirst(rule, sourceValue) ==
  LET targetValue == rule.value IN
  IF ~IsString(targetValue) THEN TypeError
  ELSE
  CASE rule.operator = "equals" ->
         Return(sourceText(sourceValue) = toLowerCase(targetValue.s))
    [] rule.operator = "not_equals" ->
         Return(sourceText(sourceValue) # toLowerCase(targetValue.s))
    [] rule.operator = "contains" ->
         Return(includes(sourceText(sourceValue), toLowerCase(targetValue.s)))
    [] rule.operator = "not_empty" ->
         Return(/\ sourceValue # Undefined
                /\ sourceValue # Str(<<>>)
                /\ sourceValue # Null
                /\ sourceValue # Bool(FALSE))
    [] OTHER -> Return(FALSE)

\* the switch over logic.operator; targetValue.toLowerCase() throws a
\* TypeError when targetValue is not a string
conditionMet(rule, sourceValue) ==
  LET targetValue == rule.value IN
  CASE rule.operator = "equals" ->
         IF ~IsString(targetValue) THEN TypeError
         ELSE Return(sourceText(sourceValue) = toLowerCase(targetValue.s))
    [] rule.operator = "not_equals" ->
         IF ~IsString(targetValue) THEN TypeError
         ELSE Return(sourceText(sourceValue) # toLowerCase(targetValue.s))
    [] rule.operator = "contains" ->
         IF ~IsString(targetValue) THEN TypeError
         ELSE Return(includes(sourceText(sourceValue), toLowerCase(targetValue.s)))
    [] rule.operator = "not_empty" ->
         Return(/\ sourceValue # Undefined
                /\ sourceValue # Str(<<>>)
                /\ sourceValue # Null
                /\ sourceValue # Bool(FALSE))
    [] OTHER -> Return(FALSE)

\* faulty variant of applyAction: the action is not consulted
applyAction_IgnoresAction(rule, met) == met

\* logic.action === "show" ? conditionMet : !conditionMet
applyAction(rule, met) == IF rule.action = "show" THEN met ELSE ~met

\* faulty variant of evaluateConditionalLogic: the enabled flag is not
\* consulted, only the presence of a rule
evaluateConditionalLogic_IgnoresEnabled(rule, data, fieldList) ==
  IF rule = Null THEN Return(TRUE)
  ELSE LET src == sourceField(rule, fieldList) IN
       IF ~src.found THEN Return(TRUE)
       ELSE LET sourceValue == Get(data, src.field.field_name)
                met == conditionMet(rule, sourceValue)
            IN  IF met.kind = "throw" THEN met
                ELSE Return(applyAction(rule, met.value))

\* the helper exported next to the editor: is the field carrying the rule
\* visible, given the answers so far and the form's fields
evaluateConditionalLogic(rule, data, fieldList) ==
  IF rule = Null \/ ~rule.enabled THEN Return(TRUE)
  ELSE LET src == sourceField(rule, fieldList) IN
       IF ~src.found THEN Return(TRUE)
       ELSE LET sourceValue == Get(data, src.field.field_name)
                met == conditionMet(rule, sourceValue)
            IN  IF met.kind = "throw" THEN met
                ELSE Return(applyAction(rule, met.value))

(***************************************************************************)
(* Inputs                                                                  *)
(***************************************************************************)
Yes == <<"Y", "e", "s">>
yes == <<"y", "e", "s">>
no == <<"n", "o">>
BlueWhale == <<"B", "l", "u", "e", " ", "W", "h", "a", "l", "e">>
whale == <<"w", "h", "a", "l", "e">>
falseText == <<"f", "a", "l", "s", "e">>
TRUEText == <<"T", "R", "U", "E">>
zero == <<"0">>

FieldIds == {"f1", "f2"}

field_name == [id \in FieldIds |-> IF id = "f1" THEN "subscribe" ELSE "color"]

Field(id) == [id |-> id, field_name |-> field_name[id]]

FieldNames == {field_name[id] : id \in FieldIds}

\* the form's fields in render order: ids are primary keys, so none repeats
FieldCollections ==
  {<<>>} \cup {<<Field(a)>> : a \in FieldIds}
         \cup {<<Field(a), Field(b)>> : <<a, b>> \in {p \in FieldIds \X FieldIds : p[1] # p[2]}}

AnswerValues ==
  {Null, Bool(FALSE), Bool(TRUE)} \cup {Num(n) : n \in 0..MaxNum}
    \cup {Str(s) : s \in {<<>>, Yes, no, BlueWhale}}

AnswerSets == UNION {[D -> AnswerValues] : D \in SUBSET FieldNames}

Actions == {"show", "hide", "toggle"}
Operators == {"equals", "not_equals", "contains", "not_empty", "greater_than"}
SourceFieldIds == {""} \cup FieldIds
RuleValues == {Undefined} \cup {Str(s) : s \in {<<>>, yes, whale, falseText, TRUEText, zero}}

ConditionalLogic ==
  [enabled : BOOLEAN, action : Actions, sourceFieldId : SourceFieldIds,
   operator : Operators, value : RuleValues]

(***************************************************************************)
(* One call of the evaluator                                               *)
(***************************************************************************)
\* no editor is mounted
EditorIdle ==
  /\ fieldId = ""
  /\ conditionalLogic = Null
  /\ otherFields = <<>>
  /\ isOpen = FALSE
  /\ onUpdated = Null

\* no call of the evaluator is under way
EvalIdle ==
  /\ logic = Null
  /\ formData = <<>>
  /\ fields = <<>>
  /\ result = Pending

\* the function has not been invoked
NoRequest == [method |-> "", json |-> "", formName |-> Undefined]
NoAnswer ==
  [failed |-> FALSE, status |-> 0, json |-> "", toolCall |-> "",
   arguments |-> [parses |-> FALSE, isObject |-> FALSE, fields |-> Undefined]]
EdgeIdle ==
  /\ req = NoRequest
  /\ apiKey = Undefined
  /\ edgePc = "idle"
  /\ gatewayRequests = 0
  /\ gatewayAnswer = NoAnswer
  /\ responses = <<>>

\* the store holds no form
StoreIdle ==
  /\ forms = {}
  /\ form_fields = <<>>
  /\ form_submissions = <<>>

\* no toast has been shown
NoToast == [title |-> "", field |-> ""]

\* no public page is mounted
PublicIdle ==
  /\ slug = Undefined
  /\ rejects = {}
  /\ loadPc = "idle"
  /\ pubForm = Null
  /\ isLoading = FALSE
  /\ pubError = Null
  /\ pubFields = <<>>
  /\ pubFormData = <<>>
  /\ isSubmitting = FALSE
  /\ isSubmitted = FALSE
  /\ submission_data = <<>>
  /\ pubToast = NoToast

\* no builder is mounted
BuilderIdle ==
  /\ builderFields = <<>>
  /\ previewData = <<>>
  /\ inFlight = {}
  /\ added = 0
  /\ deleted = {}
  /\ builderToast = NoToast
  /\ lastAnswer = "none"
  /\ anyRejected = FALSE

\* no Auth page is mounted
NoCall == [op |-> "", email |-> [valid |-> FALSE, length |-> 0], password |-> 0]
AuthIdle ==
  /\ isLogin = FALSE
  /\ authEmail = NoCall.email
  /\ authPassword = 0
  /\ authLoading = FALSE
  /\ authCall = NoCall
  /\ authToast = NoToast

\* no FormAnalytics page is mounted
AnalyticsIdle ==
  /\ submissions = <<>>
  /\ analyticsPc = "idle"
  /\ snapshot = <<>>
  /\ subscribed = FALSE
  /\ notifications = <<>>

\* no Index page is mounted
IndexIdle ==
  /\ formName = Str(<<>>)
  /\ isGenerating = FALSE
  /\ currentFormId = ""
  /\ runs = <<>>
  /\ indexToast = NoToast
  /\ created = 0

\* the pages that share no state with the evaluator, the editor, the
\* function, the public page and the builder
pageVars == <<authVars, analyticsVars, indexVars>>
PagesIdle == AuthIdle /\ AnalyticsIdle /\ IndexIdle

notEvalVars == <<editorVars, edgeVars, storeVars, publicVars, builderVars, pageVars>>
notEditorVars == <<evalVars, edgeVars, storeVars, publicVars, builderVars, pageVars>>
notEdgeVars == <<evalVars, editorVars, storeVars, publicVars, builderVars, pageVars>>
notPublicVars == <<evalVars, editorVars, edgeVars, builderVars, pageVars>>
notBuilderVars == <<evalVars, editorVars, edgeVars, publicVars, pageVars>>
notAuthVars == <<evalVars, editorVars, edgeVars, storeVars, publicVars, builderVars,
                 analyticsVars, indexVars>>
notAnalyticsVars == <<evalVars, editorVars, edgeVars, publicVars, builderVars,
                      authVars, indexVars>>
notIndexVars == <<evalVars, editorVars, edgeVars, publicVars, builderVars,
                  authVars, analyticsVars>>

Init ==
  /\ logic \in {Null} \cup ConditionalLogic
  /\ formData \in AnswerSets
  /\ fields \in FieldCollections
  /\ result = Pending
  /\ EditorIdle
  /\ EdgeIdle
  /\ StoreIdle
  /\ PublicIdle
  /\ BuilderIdle
  /\ PagesIdle

\* faulty variant of Evaluate: the call stores the empty string under every
\* field name that has no answer yet
Evaluate_FillsMissingAnswers ==
  /\ result = Pending
  /\ result' = evaluateConditionalLogic(logic, formData, fields)
  /\ formData' = [k \in FieldNames |-> IF k \in DOMAIN formData THEN formData[k]
                                        ELSE Str(<<>>)]
  /\ UNCHANGED <<logic, fields>>
  /\ UNCHANGED notEvalVars

Evaluate ==
  /\ result = Pending
  /\ result' = evaluateConditionalLogic(logic, formData, fields)
  /\ UNCHANGED <<logic, formData, fields>>
  /\ UNCHANGED notEvalVars

Next == Evaluate

Spec == Init /\ [][Next]_vars


(***************************************************************************)
(* The rule editor of one field (ConditionalLogicEditor)                   *)
(***************************************************************************)
\* faulty variant of availableFields: the field being edited is not left out
availableFields_KeepsOwnField(id, others) == others

\* otherFields.filter(f => f.id !== fieldId)
availableFields(id, others) == SelectSeq(others, LAMBDA f : f.id # id)

defaultLogic ==
  [enabled |-> FALSE, action |-> "show", sourceFieldId |-> "",
   operator |-> "equals", value |-> Str(<<>>)]

\* const logic = conditionalLogic || defaultLogic
editorLogic == IF conditionalLogic = Null THEN defaultLogic ELSE conditionalLogic

\* if (availableFields.length === 0) return null
EditorRenders == Len(availableFields(fieldId, otherFields)) # 0

\* what the editor's inputs can produce
EditorActions == {"show", "hide"}
EditorOperators == {"equals", "not_equals", "contains", "not_empty"}
EditorValues == {Str(s) : s \in {<<>>, yes}}

\* the rules the editor can be handed to start with: none, or one whose
\* source is still empty or names another field
EditorRules(id) ==
  {Null} \cup [enabled : BOOLEAN, action : EditorActions,
               sourceFieldId : ({""} \cup FieldIds) \ {id},
               operator : EditorOperators, value : EditorValues]

InitEditor ==
  /\ fieldId \in FieldIds
  /\ otherFields \in FieldCollections
  /\ conditionalLogic \in EditorRules(fieldId)
  \* useState(!!conditionalLogic?.enabled)
  /\ isOpen = (conditionalLogic # Null /\ conditionalLogic.enabled)
  /\ onUpdated = Null
  /\ EvalIdle
  /\ EdgeIdle
  /\ StoreIdle
  /\ PublicIdle
  /\ BuilderIdle
  /\ PagesIdle

\* onUpdate(next): the owner of the field receives the rule; it hands it back
\* as conditionalLogic when it stores it, and leaves the prop as it was when
\* it does not
onUpdate(next) ==
  /\ onUpdated' = next
  /\ conditionalLogic' \in {next, conditionalLogic}
  /\ UNCHANGED <<fieldId, otherFields, isOpen>>
  /\ UNCHANGED notEditorVars

\* <Collapsible open={isOpen} onOpenChange={setIsOpen}>
setIsOpen ==
  /\ EditorRenders
  /\ isOpen' = ~isOpen
  /\ UNCHANGED <<fieldId, conditionalLogic, otherFields, onUpdated>>
  /\ UNCHANGED notEditorVars

\* the Switch: handleToggle(enabled) with the negation of what it shows
handleToggle ==
  /\ EditorRenders /\ isOpen
  /\ onUpdate([editorLogic EXCEPT !.enabled = ~editorLogic.enabled])

\* the Action select: handleUpdate({ action: val })
handleUpdateAction ==
  /\ EditorRenders /\ isOpen /\ editorLogic.enabled
  /\ \E val \in EditorActions : onUpdate([editorLogic EXCEPT !.action = val])

\* the When select, which lists availableFields: handleUpdate({ sourceFieldId: val })
handleUpdateSource ==
  /\ EditorRenders /\ isOpen /\ editorLogic.enabled
  /\ \E i \in 1..Len(availableFields(fieldId, otherFields)) :
       onUpdate([editorLogic EXCEPT
                   !.sourceFieldId = availableFields(fieldId, otherFields)[i].id])

\* the Operator select: handleUpdate({ operator: val })
handleUpdateOperator ==
  /\ EditorRenders /\ isOpen /\ editorLogic.enabled
  /\ \E val \in EditorOperators : onUpdate([editorLogic EXCEPT !.operator = val])

\* the Value input, shown unless the operator is not_empty:
\* handleUpdate({ value: e.target.value })
handleUpdateValue ==
  /\ EditorRenders /\ isOpen /\ editorLogic.enabled
  /\ editorLogic.operator # "not_empty"
  /\ \E val \in EditorValues : onUpdate([editorLogic EXCEPT !.value = val])

NextEditor ==
  \/ setIsOpen
  \/ handleToggle
  \/ handleUpdateAction
  \/ handleUpdateSource
  \/ handleUpdateOperator
  \/ handleUpdateValue

SpecEditor == InitEditor /\ [][NextEditor]_vars


(***************************************************************************)
(* The generate-form-fields function                                       *)
(***************************************************************************)
ContactForm == <<"C", "o", "n", "t", "a", "c", "t">>
Survey == <<"S", "u", "r", "v", "e", "y">>
secret == <<"k", "e", "y">>
oops == <<"o", "o", "p", "s">>

\* a JSON array of n field definitions
Arr(n) == [t |-> "array", s |-> <<>>, n |-> n, b |-> FALSE]

\* reading a property of undefined or null throws a TypeError
HasProperties(x) == x.t \notin {"undefined", "null"}

\* the requests the function can receive: the method, whether the body is
\* JSON at all (and an object), and the formName the body carries
Requests ==
  [method : {"OPTIONS", "POST"}, json : {"invalid", "null"}, formName : {Undefined}]
  \cup [method : {"OPTIONS", "POST"}, json : {"object"},
        formName : {Undefined, Str(<<>>), Str(ContactForm), Str(Survey)}]

ApiKeys == {Undefined, Str(<<>>), Str(secret)}

\* JSON.parse(toolCall.function.arguments): not JSON, JSON null, or an object
\* whose fields member is absent, null, a string, a number or a list
ToolArguments ==
  {[parses |-> FALSE, isObject |-> FALSE, fields |-> Undefined],
   [parses |-> TRUE, isObject |-> FALSE, fields |-> Undefined]}
  \cup [parses : {TRUE}, isObject : {TRUE},
        fields : {Undefined, Null, Str(oops), Num(0), Arr(0), Arr(1)}]

\* what fetch can come back with: a network failure, a non-OK status, or an
\* OK status with a body that is not JSON, is null, has no tool call, has a
\* tool call without function, with another name, or with the expected name
GatewayAnswers ==
  {[NoAnswer EXCEPT !.failed = TRUE]}
  \cup {[NoAnswer EXCEPT !.status = st] : st \in {400, 402, 429, 500}}
  \cup {[NoAnswer EXCEPT !.status = st, !.json = j] :
          st \in {200, 201}, j \in {"invalid", "null"}}
  \cup {[NoAnswer EXCEPT !.status = st, !.json = "object", !.toolCall = tc] :
          st \in {200, 201}, tc \in {"none", "noFunction", "other"}}
  \cup {[NoAnswer EXCEPT !.status = st, !.json = "object",
                         !.toolCall = "generate_form_fields", !.arguments = a] :
          st \in {200, 201}, a \in ToolArguments}

\* response.ok
ok(answer) == answer.status \in 200..299

\* new Response(null, { headers: corsHeaders })
NullResponse == [status |-> 200, body |-> "null", error |-> "", fields |-> Undefined]
\* new Response(JSON.stringify({ error }), { status })
ErrorResponse(st, msg) == [status |-> st, body |-> "error", error |-> msg, fields |-> Undefined]
\* new Response(JSON.stringify({ fields }))
FieldsResponse(fs) == [status |-> 200, body |-> "fields", error |-> "", fields |-> fs]

\* the catch block: status 500 with the message of the error
Caught(msg) == ErrorResponse(500, msg)

respond(r) ==
  /\ responses' = Append(responses, r)
  /\ edgePc' = "done"

InitEdge ==
  /\ req \in Requests
  /\ apiKey \in ApiKeys
  /\ edgePc = "start"
  /\ gatewayRequests = 0
  /\ gatewayAnswer = NoAnswer
  /\ responses = <<>>
  /\ EvalIdle
  /\ EditorIdle
  /\ StoreIdle
  /\ PublicIdle
  /\ BuilderIdle
  /\ PagesIdle

\* entry: the OPTIONS preflight is answered at once, any other request goes
\* on to await req.json()
serve ==
  /\ edgePc = "start"
  /\ IF req.method = "OPTIONS"
       THEN respond(NullResponse)
       ELSE edgePc' = "req.json" /\ UNCHANGED responses
  /\ UNCHANGED <<req, apiKey, gatewayRequests, gatewayAnswer>>
  /\ UNCHANGED notEdgeVars

\* from the body to the call of fetch
serve_formName ==
  /\ edgePc = "req.json"
  /\ IF req.json = "invalid"
       THEN respond(Caught("Unexpected token")) /\ UNCHANGED gatewayRequests
     ELSE IF req.json = "null"
       THEN respond(Caught("Cannot destructure property 'formName'"))
            /\ UNCHANGED gatewayRequests
     ELSE IF ~Truthy(req.formName)
       THEN respond(ErrorResponse(400, "Form name is required"))
            /\ UNCHANGED gatewayRequests
     ELSE IF ~Truthy(apiKey)
       THEN respond(ErrorResponse(500, "AI service not configured"))
            /\ UNCHANGED gatewayRequests
     ELSE /\ gatewayRequests' = gatewayRequests + 1
          /\ edgePc' = "fetch"
          /\ UNCHANGED responses
  /\ UNCHANGED <<req, apiKey, gatewayAnswer>>
  /\ UNCHANGED notEdgeVars

\* faulty variant of serve_response: an answer of 429 is retried
serve_response_RetriesRateLimit ==
  /\ edgePc = "fetch"
  /\ \E answer \in GatewayAnswers :
       /\ gatewayAnswer' = answer
       /\ IF answer.failed
            THEN respond(Caught("error sending request")) /\ UNCHANGED gatewayRequests
          ELSE IF answer.status = 429
            THEN gatewayRequests' = gatewayRequests + 1 /\ UNCHANGED <<edgePc, responses>>
          ELSE IF answer.status = 402
            THEN respond(ErrorResponse(402, "AI credits exhausted. Please add credits to continue."))
                 /\ UNCHANGED gatewayRequests
          ELSE IF ~ok(answer)
            THEN edgePc' = "response.text" /\ UNCHANGED <<responses, gatewayRequests>>
          ELSE edgePc' = "response.json" /\ UNCHANGED <<responses, gatewayRequests>>
  /\ UNCHANGED <<req, apiKey>>
  /\ UNCHANGED notEdgeVars

\* fetch settles: the status checks
serve_response ==
  /\ edgePc = "fetch"
  /\ \E answer \in GatewayAnswers :
       /\ gatewayAnswer' = answer
       /\ IF answer.failed
            THEN respond(Caught("error sending request"))
          ELSE IF answer.status = 429
            THEN respond(ErrorResponse(429, "Rate limit exceeded. Please try again later."))
          ELSE IF answer.status = 402
            THEN respond(ErrorResponse(402, "AI credits exhausted. Please add credits to continue."))
          ELSE IF ~ok(answer)
            THEN edgePc' = "response.text" /\ UNCHANGED responses
          ELSE edgePc' = "response.json" /\ UNCHANGED responses
  /\ UNCHANGED <<req, apiKey, gatewayRequests>>
  /\ UNCHANGED notEdgeVars

\* the body of a non-OK answer has been read, or reading it failed
serve_errorText ==
  /\ edgePc = "response.text"
  /\ \E readable \in BOOLEAN :
       IF readable THEN respond(ErrorResponse(500, "Failed to generate form fields"))
       ELSE respond(Caught("error reading a body from connection"))
  /\ UNCHANGED <<req, apiKey, gatewayRequests, gatewayAnswer>>
  /\ UNCHANGED notEdgeVars

\* JSON.parse(toolCall.function.arguments).fields, fields.length, and the
\* success response
toolCallResponse(answer) ==
  IF ~answer.arguments.parses THEN Caught("Unexpected token")
  ELSE IF ~answer.arguments.isObject THEN Caught("Cannot read properties of null")
  ELSE IF ~HasProperties(answer.arguments.fields)
    THEN Caught("Cannot read properties of undefined")
  ELSE FieldsResponse(answer.arguments.fields)

\* the body of an OK answer has been read: the tool call and its arguments
serve_toolCall ==
  /\ edgePc = "response.json"
  /\ IF gatewayAnswer.json = "invalid"
       THEN respond(Caught("Unexpected token"))
     ELSE IF gatewayAnswer.json = "null"
       THEN respond(Caught("Cannot read properties of null"))
     ELSE IF gatewayAnswer.toolCall = "none"
       THEN respond(ErrorResponse(500, "Invalid AI response"))
     ELSE IF gatewayAnswer.toolCall = "noFunction"
       THEN respond(Caught("Cannot read properties of undefined"))
     ELSE IF gatewayAnswer.toolCall # "generate_form_fields"
       THEN respond(ErrorResponse(500, "Invalid AI response"))
     ELSE respond(toolCallResponse(gatewayAnswer))
  /\ UNCHANGED <<req, apiKey, gatewayRequests, gatewayAnswer>>
  /\ UNCHANGED notEdgeVars

NextEdge ==
  \/ serve
  \/ serve_formName
  \/ serve_response
  \/ serve_errorText
  \/ serve_toolCall

SpecEdge == InitEdge /\ [][NextEdge]_vars


(***************************************************************************)
(* The form_fields rows of a form                                          *)
(***************************************************************************)
\* the form the builder and the pages of one form are opened on
formId == "form1"

\* a form_fields row of that form: the columns the pages read
Row(id, name, required, order_index, rule) ==
  [id |-> id, form_id |-> formId, field_name |-> name, required |-> required,
   order_index |-> order_index, conditional_logic |-> rule]

\* fields.map(f => ({ id: f.id, field_name: f.field_name }))
idAndName(rows) == [i \in 1..Len(rows) |-> [id |-> rows[i].id, field_name |-> rows[i].field_name]]

\* the conditional_logic column: NULL, or a rule stored for the field
StoredRules ==
  {Null} \cup [enabled : {TRUE}, action : {"show", "hide"}, sourceFieldId : FieldIds,
               operator : {"equals", "not_empty"}, value : {Str(yes)}]

\* the rows of a generated form, in the order of their order_index
GeneratedForms ==
  {[i \in 1..Len(c) |-> Row(c[i].id, c[i].field_name, rq[i], i - 1, rl[i])] :
     <<c, rq, rl>> \in {<<c, rq, rl>> \in FieldCollections \X [1..2 -> BOOLEAN]
                                               \X [1..2 -> StoredRules] :
                          \A j \in 1..2 : j > Len(c) => (~rq[j] /\ rl[j] = Null)}}

(***************************************************************************)
(* The public submission page (PublicForm)                                 *)
(***************************************************************************)
\* what the page's inputs hand to updateFormData
InputValues == {Str(<<>>), Str(Yes), Bool(TRUE), Bool(FALSE)}

abc == <<"a", "b", "c">>
xyz == <<"x", "y", "z">>

\* a forms row: the columns the pages read
Form(id, is_public, public_slug) ==
  [id |-> id, is_public |-> is_public, public_slug |-> public_slug]

\* a form_submissions row
Submission(id, form_id, data) == [id |-> id, form_id |-> form_id, submission_data |-> data]

\* the ids the store gives to form_submissions rows, in the order of insertion
SubmissionIds == <<"s1", "s2", "s3", "s4">>

\* the forms table a public page can meet: empty, or holding the form, public
\* or not, with or without a public link
PublishedForms ==
  {{}} \cup {{Form(formId, pub, sl)} : pub \in BOOLEAN, sl \in {Null, Str(abc)}}

InitPublic ==
  /\ forms \in PublishedForms
  /\ form_fields \in (IF forms = {} THEN {<<>>} ELSE GeneratedForms)
  /\ form_submissions = <<>>
  \* useParams: no slug in the route, or one
  /\ slug \in {Undefined, Str(abc), Str(xyz)}
  /\ rejects \in SUBSET {"forms", "form_fields"}
  /\ loadPc = "start"
  /\ pubForm = Null
  /\ isLoading = TRUE
  /\ pubError = Null
  /\ pubFields = <<>>
  /\ pubFormData = <<>>
  /\ isSubmitting = FALSE
  /\ isSubmitted = FALSE
  /\ submission_data = <<>>
  /\ pubToast = NoToast
  /\ EvalIdle
  /\ EditorIdle
  /\ EdgeIdle
  /\ BuilderIdle
  /\ PagesIdle

\* setError(msg); setIsLoading(false): loadForm is over
loadFailed(msg) ==
  /\ pubError' = Str(<<msg>>)
  /\ isLoading' = FALSE
  /\ loadPc' = "done"

\* loadForm up to its first await: without a slug it ends at once
loadForm ==
  /\ loadPc = "start"
  /\ IF ~Truthy(slug)
       THEN loadFailed("Form not found")
       ELSE loadPc' = "forms" /\ UNCHANGED <<pubError, isLoading>>
  /\ UNCHANGED <<slug, rejects, pubForm, pubFields, pubFormData, isSubmitting,
                 isSubmitted, submission_data, pubToast>>
  /\ UNCHANGED <<storeVars, notPublicVars>>

\* .from("forms").select("*").eq("public_slug", slug).maybeSingle()
formBySlug == {f \in forms : f.public_slug = slug}

\* faulty variant of loadForm_form: a form that is not public is loaded too
loadForm_form_IgnoresIsPublic ==
  /\ loadPc = "forms"
  /\ IF "forms" \in rejects
       THEN loadFailed("Failed to load form") /\ UNCHANGED pubForm
     ELSE IF formBySlug = {}
       THEN loadFailed("Form not found") /\ UNCHANGED pubForm
     ELSE /\ pubForm' = (CHOOSE f \in formBySlug : TRUE)
          /\ loadPc' = "form_fields"
          /\ UNCHANGED <<pubError, isLoading>>
  /\ UNCHANGED <<slug, rejects, pubFields, pubFormData, isSubmitting,
                 isSubmitted, submission_data, pubToast>>
  /\ UNCHANGED <<storeVars, notPublicVars>>

\* the forms query settles: store error, no such form, a form that is not
\* public, or setForm(formData) and the query of its fields
loadForm_form ==
  /\ loadPc = "forms"
  /\ IF "forms" \in rejects
       THEN loadFailed("Failed to load form") /\ UNCHANGED pubForm
     ELSE IF formBySlug = {}
       THEN loadFailed("Form not found") /\ UNCHANGED pubForm
     ELSE IF ~(CHOOSE f \in formBySlug : TRUE).is_public
       THEN loadFailed("This form is not publicly available") /\ UNCHANGED pubForm
     ELSE /\ pubForm' = (CHOOSE f \in formBySlug : TRUE)
          /\ loadPc' = "form_fields"
          /\ UNCHANGED <<pubError, isLoading>>
  /\ UNCHANGED <<slug, rejects, pubFields, pubFormData, isSubmitting,
                 isSubmitted, submission_data, pubToast>>
  /\ UNCHANGED <<storeVars, notPublicVars>>

\* the form_fields query settles: store error, or setFields with the rows
\* ordered by order_index; finally setIsLoading(false)
loadForm_fields ==
  /\ loadPc = "form_fields"
  /\ IF "form_fields" \in rejects
       THEN loadFailed("Failed to load form") /\ UNCHANGED pubFields
       ELSE /\ pubFields' = form_fields
            /\ isLoading' = FALSE
            /\ loadPc' = "done"
            /\ UNCHANGED pubError
  /\ UNCHANGED <<slug, rejects, pubForm, pubFormData, isSubmitting,
                 isSubmitted, submission_data, pubToast>>
  /\ UNCHANGED <<storeVars, notPublicVars>>

\* the form, and not the spinner, the error card or the thank-you card, is
\* on the page
FormRendered == ~isLoading /\ pubError = Null /\ ~isSubmitted

\* setFormData(prev => ({ ...prev, [fieldName]: value }))
setKey(data, fieldName, value) ==
  [k \in DOMAIN data \cup {fieldName} |-> IF k = fieldName THEN value ELSE data[k]]

\* faulty variant of updateFormData: every change is saved as a submission
updateFormData_SavesDraft ==
  /\ FormRendered
  /\ \E i \in 1..Len(pubFields), value \in InputValues :
       /\ pubFormData' = setKey(pubFormData, pubFields[i].field_name, value)
       /\ form_submissions' =
            Append(form_submissions,
                   Submission(SubmissionIds[Len(form_submissions) + 1], formId, pubFormData'))
  /\ UNCHANGED <<slug, rejects, loadPc, pubForm, isLoading, pubError, pubFields,
                 isSubmitting, isSubmitted, submission_data, pubToast>>
  /\ UNCHANGED <<forms, form_fields, notPublicVars>>

\* an input of a rendered field changes: updateFormData(field.field_name, value)
updateFormData ==
  /\ FormRendered
  /\ \E i \in 1..Len(pubFields), value \in InputValues :
       pubFormData' = setKey(pubFormData, pubFields[i].field_name, value)
  /\ UNCHANGED <<slug, rejects, loadPc, pubForm, isLoading, pubError, pubFields,
                 isSubmitting, isSubmitted, submission_data, pubToast>>
  /\ UNCHANGED <<storeVars, notPublicVars>>

\* faulty variant of requiredMissing: only an untouched field counts
requiredMissing_OnlyAbsent(i) ==
  pubFields[i].required /\ pubFields[i].field_name \notin DOMAIN pubFormData

\* field.required && !formData[field.field_name]
requiredMissing(i) ==
  pubFields[i].required /\ ~Truthy(Get(pubFormData, pubFields[i].field_name))

\* the field at which the validation loop returns, if any
RequiredMissing == \E i \in 1..Len(pubFields) : requiredMissing(i)
firstMissing ==
  CHOOSE i \in 1..Len(pubFields) :
    requiredMissing(i) /\ \A j \in 1..(i - 1) : ~requiredMissing(j)

\* the submit event (the button is disabled while isSubmitting): validation,
\* then the insert is sent with the answers of this render
handleSubmit ==
  /\ FormRendered /\ ~isSubmitting
  /\ pubForm # Null
  /\ IF RequiredMissing
       THEN /\ pubToast' = [title |-> "Validation Error",
                            field |-> pubFields[firstMissing].field_name]
            /\ UNCHANGED <<isSubmitting, submission_data>>
       ELSE /\ isSubmitting' = TRUE
            /\ submission_data' = pubFormData
            /\ UNCHANGED pubToast
  /\ UNCHANGED <<slug, rejects, loadPc, pubForm, isLoading, pubError, pubFields,
                 pubFormData, isSubmitted>>
  /\ UNCHANGED <<storeVars, notPublicVars>>

\* faulty variant of handleSubmit_inserted: the page thanks whatever the
\* store answered
handleSubmit_inserted_ThanksAnyway ==
  /\ isSubmitting
  /\ \/ /\ form_submissions' =
             Append(form_submissions,
                    Submission(SubmissionIds[Len(form_submissions) + 1], formId,
                               submission_data))
        /\ pubToast' = [title |-> "Success!", field |-> ""]
     \/ /\ pubToast' = [title |-> "Submission Failed", field |-> ""]
        /\ UNCHANGED form_submissions
  /\ isSubmitted' = TRUE
  /\ isSubmitting' = FALSE
  /\ submission_data' = <<>>
  /\ UNCHANGED <<slug, rejects, loadPc, pubForm, isLoading, pubError, pubFields,
                 pubFormData>>
  /\ UNCHANGED <<forms, form_fields, notPublicVars>>

\* the insert settles: a row is written and the page thanks, or the error is
\* shown; finally setIsSubmitting(false)
handleSubmit_inserted ==
  /\ isSubmitting
  /\ \/ /\ form_submissions' =
             Append(form_submissions,
                    Submission(SubmissionIds[Len(form_submissions) + 1], formId,
                               submission_data))
        /\ isSubmitted' = TRUE
        /\ pubToast' = [title |-> "Success!", field |-> ""]
     \/ /\ pubToast' = [title |-> "Submission Failed", field |-> ""]
        /\ UNCHANGED <<form_submissions, isSubmitted>>
  /\ isSubmitting' = FALSE
  /\ submission_data' = <<>>
  /\ UNCHANGED <<slug, rejects, loadPc, pubForm, isLoading, pubError, pubFields,
                 pubFormData>>
  /\ UNCHANGED <<forms, form_fields, notPublicVars>>

\* the fields the page presents as active inputs: every field of the form
publicInputs == IF FormRendered THEN {pubFields[i].id : i \in 1..Len(pubFields)} ELSE {}

NextPublic ==
  \/ loadForm
  \/ loadForm_form
  \/ loadForm_fields
  \/ updateFormData
  \/ handleSubmit
  \/ handleSubmit_inserted

SpecPublic == InitPublic /\ [][NextPublic]_vars


(***************************************************************************)
(* The form builder and its live preview (FormBuilder, FormPreview)        *)
(***************************************************************************)
\* the number of fields one builder session adds, and of calls it has under
\* way at once
MaxAdded == 1
MaxInFlight == 2

\* the id the store gives the n-th added field, and its field_${Date.now()}
NewFields ==
  <<[id |-> "f3", field_name |-> "field_3"], [id |-> "f4", field_name |-> "field_4"],
    [id |-> "f5", field_name |-> "field_5"]>>

\* the forms a builder is opened on: two generated rows, none required, the
\* second with any stored rule
BuilderForms ==
  {f \in GeneratedForms :
     /\ Len(f) = 2
     /\ \A i \in 1..Len(f) : ~f[i].required
     /\ f[1].conditional_logic = Null}

\* what the preview's inputs hand to updatePreviewData
PreviewValues == {Str(<<>>), Str(Yes)}

InitBuilder ==
  /\ forms = {Form(formId, TRUE, Null)}
  /\ form_fields \in BuilderForms
  /\ form_submissions = <<>>
  \* loadForm: setFields(fieldsData), ordered by order_index
  /\ builderFields = form_fields
  /\ previewData = <<>>
  /\ inFlight = {}
  /\ added = 0
  /\ deleted = {}
  /\ builderToast = NoToast
  /\ lastAnswer = "none"
  /\ anyRejected = FALSE
  /\ EvalIdle
  /\ EditorIdle
  /\ EdgeIdle
  /\ PublicIdle
  /\ PagesIdle

\* an addField, updateField or deleteField call between its request and the
\* store's answer, with the fields of the render that started it
Call(op, id, name, required, closure) ==
  [op |-> op, fieldId |-> id, field_name |-> name, required |-> required,
   fields |-> closure]

\* toast({ title, description })
Toast(title, description) == [title |-> title, field |-> description]

\* the store accepted the call that settles
accepted ==
  /\ lastAnswer' = "ok"
  /\ UNCHANGED anyRejected

\* the store rejected the call that settles: the catch block's toast
rejected(description) ==
  /\ lastAnswer' = "error"
  /\ anyRejected' = TRUE
  /\ builderToast' = Toast("Error", description)

\* addField up to its await: newField with order_index: fields.length
addField ==
  /\ added < MaxAdded
  /\ Cardinality(inFlight) < MaxInFlight
  /\ added' = added + 1
  /\ inFlight' = inFlight \cup {Call("add", NewFields[added'].id,
                                     NewFields[added'].field_name, FALSE, builderFields)}
  /\ UNCHANGED <<builderFields, previewData, deleted, builderToast, lastAnswer,
                 anyRejected>>
  /\ UNCHANGED <<storeVars, notBuilderVars>>

\* the insert settles: setFields([...fields, data]) with the fields of the
\* render that started the call, or the error toast
addField_inserted ==
  \E call \in inFlight :
    /\ call.op = "add"
    /\ inFlight' = inFlight \ {call}
    /\ \/ LET data == Row(call.fieldId, call.field_name, FALSE, Len(call.fields), Null)
          IN  /\ form_fields' = Append(form_fields, data)
              /\ builderFields' = Append(call.fields, data)
              /\ builderToast' = Toast("Field added", "New field added to the form")
              /\ accepted
       \/ /\ rejected("Failed to add field")
          /\ UNCHANGED <<form_fields, builderFields>>
    /\ UNCHANGED <<previewData, added, deleted, forms, form_submissions>>
    /\ UNCHANGED notBuilderVars

\* { ...f, ...updates } for the field of the call, in a list of rows
updated(rows, id, required) ==
  [i \in 1..Len(rows) |-> IF rows[i].id = id THEN [rows[i] EXCEPT !.required = required]
                          ELSE rows[i]]

\* the Required checkbox of a listed field:
\* updateField(field.id, { required: checked }) up to its await
updateField ==
  /\ Cardinality(inFlight) < MaxInFlight
  /\ \E i \in 1..Len(builderFields) :
       inFlight' = inFlight \cup {Call("update", builderFields[i].id,
                                       builderFields[i].field_name,
                                       ~builderFields[i].required, builderFields)}
  /\ UNCHANGED <<builderFields, previewData, added, deleted, builderToast, lastAnswer,
                 anyRejected>>
  /\ UNCHANGED <<storeVars, notBuilderVars>>

\* the update settles: setFields(fields.map(...)) with the fields of the
\* render that started the call, or the error toast
updateField_updated ==
  \E call \in inFlight :
    /\ call.op = "update"
    /\ inFlight' = inFlight \ {call}
    /\ \/ /\ form_fields' = updated(form_fields, call.fieldId, call.required)
          /\ builderFields' = updated(call.fields, call.fieldId, call.required)
          /\ accepted
          /\ UNCHANGED builderToast
       \/ /\ rejected("Failed to update field")
          /\ UNCHANGED <<form_fields, builderFields>>
    /\ UNCHANGED <<previewData, added, deleted, forms, form_submissions>>
    /\ UNCHANGED notBuilderVars

\* the delete button of a listed field: deleteField(field.id) up to its await
deleteField ==
  /\ Cardinality(inFlight) < MaxInFlight
  /\ \E i \in 1..Len(builderFields) :
       inFlight' = inFlight \cup {Call("delete", builderFields[i].id,
                                       builderFields[i].field_name, FALSE, builderFields)}
  /\ UNCHANGED <<builderFields, previewData, added, deleted, builderToast, lastAnswer,
                 anyRejected>>
  /\ UNCHANGED <<storeVars, notBuilderVars>>

\* fields.filter(f => f.id !== fieldId); also the rows .delete().eq("id",
\* fieldId) leaves in the table
remaining(rows, id) == SelectSeq(rows, LAMBDA f : f.id # id)

\* faulty variant of deleteField_deleted: the field leaves the local list
\* whatever the store answered
deleteField_deleted_RemovesAnyway ==
  \E call \in inFlight :
    /\ call.op = "delete"
    /\ inFlight' = inFlight \ {call}
    /\ builderFields' = remaining(call.fields, call.fieldId)
    /\ \/ /\ form_fields' = remaining(form_fields, call.fieldId)
          /\ deleted' = deleted \cup {call.fieldId}
          /\ builderToast' = Toast("Field deleted", "Field removed from the form")
          /\ accepted
       \/ /\ rejected("Failed to delete field")
          /\ UNCHANGED <<form_fields, deleted>>
    /\ UNCHANGED <<previewData, added, forms, form_submissions>>
    /\ UNCHANGED notBuilderVars

\* the delete settles: setFields(fields.filter(...)) with the fields of the
\* render that started the call, or the error toast
deleteField_deleted ==
  \E call \in inFlight :
    /\ call.op = "delete"
    /\ inFlight' = inFlight \ {call}
    /\ \/ /\ form_fields' = remaining(form_fields, call.fieldId)
          /\ builderFields' = remaining(call.fields, call.fieldId)
          /\ deleted' = deleted \cup {call.fieldId}
          /\ builderToast' = Toast("Field deleted", "Field removed from the form")
          /\ accepted
       \/ /\ rejected("Failed to delete field")
          /\ UNCHANGED <<form_fields, builderFields, deleted>>
    /\ UNCHANGED <<previewData, added, forms, form_submissions>>
    /\ UNCHANGED notBuilderVars

\* an input of the preview changes: updatePreviewData(field.field_name, value)
updatePreviewData ==
  /\ \E i \in 1..Len(builderFields), value \in PreviewValues :
       previewData' = setKey(previewData, builderFields[i].field_name, value)
  /\ UNCHANGED <<builderFields, inFlight, added, deleted, builderToast, lastAnswer,
                 anyRejected>>
  /\ UNCHANGED <<storeVars, notBuilderVars>>

\* isFieldVisible(field), in the preview of the builder's fields
isFieldVisible(field) ==
  evaluateConditionalLogic(field.conditional_logic, previewData, idAndName(builderFields))

\* the fields the preview presents as active inputs: opacity-100, and not
\* opacity-30 pointer-events-none
previewInputs ==
  {builderFields[i].id : i \in {j \in 1..Len(builderFields) :
                                  isFieldVisible(builderFields[j]) = Return(TRUE)}}

\* the builder with its preview: fields are added and deleted while the
\* preview is filled
NextBuilder ==
  \/ addField
  \/ addField_inserted
  \/ deleteField
  \/ deleteField_deleted
  \/ updatePreviewData

SpecBuilder == InitBuilder /\ [][NextBuilder]_vars

\* a builder opened on a generated form of two fields that carry no rule
InitBuilderCalls ==
  /\ InitBuilder
  /\ \A i \in 1..Len(form_fields) :
       form_fields[i].conditional_logic = Null /\ form_fields[i].order_index = i - 1
  /\ form_fields[1].id = "f1"

\* the builder's calls to the store: fields are added, updated and deleted,
\* the preview is left alone
NextBuilderCalls ==
  \/ addField
  \/ addField_inserted
  \/ updateField
  \/ updateField_updated
  \/ deleteField
  \/ deleteField_deleted

SpecBuilderCalls == InitBuilderCalls /\ [][NextBuilderCalls]_vars

(***************************************************************************)
(* The Auth page.  An email is the text of the email input, which the      *)
(* browser hands over without surrounding white space: whether it is an    *)
(* email address, and its length.  A password is its length.               *)
(***************************************************************************)
Emails ==
  { e \in [valid : BOOLEAN, length : {0, 12, 255, 256}] : e.valid => e.length > 0 }

Passwords == {0, 5, 6, 72, 73}

InitAuth ==
  /\ isLogin = TRUE
  /\ authEmail = [valid |-> FALSE, length |-> 0]
  /\ authPassword = 0
  /\ authLoading = FALSE
  /\ authCall = NoCall
  /\ authToast = NoToast
  /\ EvalIdle
  /\ EditorIdle
  /\ EdgeIdle
  /\ StoreIdle
  /\ PublicIdle
  /\ BuilderIdle
  /\ AnalyticsIdle
  /\ IndexIdle

setEmail ==
  /\ \E e \in Emails : authEmail' = e
  /\ UNCHANGED <<isLogin, authPassword, authLoading, authCall, authToast>>
  /\ UNCHANGED notAuthVars

setPassword ==
  /\ \E p \in Passwords : authPassword' = p
  /\ UNCHANGED <<isLogin, authEmail, authLoading, authCall, authToast>>
  /\ UNCHANGED notAuthVars

setIsLogin ==
  /\ isLogin' = ~isLogin
  /\ UNCHANGED <<authEmail, authPassword, authLoading, authCall, authToast>>
  /\ UNCHANGED notAuthVars

\* authSchema.safeParse: the messages of the issues, in the order of the
\* schema (the email after trimming, which takes nothing off these emails)
safeParse_NoMinimum(e, p) ==
  (IF ~e.valid THEN <<"Invalid email address">> ELSE <<>>)
  \o (IF e.length > 255 THEN <<"Email must be less than 255 characters">> ELSE <<>>)
  \o (IF p > 72 THEN <<"Password must be less than 72 characters">> ELSE <<>>)

safeParse(e, p) ==
  (IF ~e.valid THEN <<"Invalid email address">> ELSE <<>>)
  \o (IF e.length > 255 THEN <<"Email must be less than 255 characters">> ELSE <<>>)
  \o (IF p < 6 THEN <<"Password must be at least 6 characters">> ELSE <<>>)
  \o (IF p > 72 THEN <<"Password must be less than 72 characters">> ELSE <<>>)

\* the form is submitted: by its button, which is disabled while isLoading,
\* or by Enter, which goes through that button; both inputs are required
authSubmit ==
  /\ ~authLoading
  /\ authEmail.length > 0
  /\ authPassword > 0
  /\ IF safeParse(authEmail, authPassword) # <<>>
       THEN /\ authToast' = Toast("Validation Error",
                                  Head(safeParse(authEmail, authPassword)))
            /\ UNCHANGED <<authLoading, authCall>>
       ELSE /\ authLoading' = TRUE
            /\ authCall' = [op |-> IF isLogin THEN "signIn" ELSE "signUp",
                            email |-> authEmail, password |-> authPassword]
            /\ UNCHANGED authToast
  /\ UNCHANGED <<isLogin, authEmail, authPassword>>
  /\ UNCHANGED notAuthVars

\* what signIn and signUp resolve to, or that they throw
AuthOutcomes ==
  {"ok", "Invalid login credentials", "already registered", "error.message", "throws"}

\* the rest of handleSubmit once signIn has settled
signIn_settled ==
  /\ authCall.op = "signIn"
  /\ \E outcome \in AuthOutcomes :
       CASE outcome = "ok" ->
              authToast' = Toast("Welcome back!", "You have successfully logged in.")
         [] outcome = "Invalid login credentials" ->
              authToast' = Toast("Login Failed",
                                 "Invalid email or password. Please try again.")
         [] outcome = "throws" -> UNCHANGED authToast
         [] OTHER -> authToast' = Toast("Login Failed", outcome)
  /\ authLoading' = FALSE
  /\ authCall' = NoCall
  /\ UNCHANGED <<isLogin, authEmail, authPassword>>
  /\ UNCHANGED notAuthVars

\* the rest of handleSubmit once signUp has settled
signUp_settled ==
  /\ authCall.op = "signUp"
  /\ \E outcome \in AuthOutcomes :
       CASE outcome = "ok" ->
              /\ authToast' = Toast("Account created!",
                                    "You have successfully signed up. You can now log in.")
              /\ isLogin' = TRUE
         [] outcome = "already registered" ->
              /\ authToast' = Toast("Sign Up Failed",
                     "This email is already registered. Please log in instead.")
              /\ UNCHANGED isLogin
         [] outcome = "throws" -> UNCHANGED <<authToast, isLogin>>
         [] OTHER -> authToast' = Toast("Sign Up Failed", outcome) /\ UNCHANGED isLogin
  /\ authLoading' = FALSE
  /\ authCall' = NoCall
  /\ UNCHANGED <<authEmail, authPassword>>
  /\ UNCHANGED notAuthVars

NextAuth ==
  \/ setEmail
  \/ setPassword
  \/ setIsLogin
  \/ authSubmit
  \/ signIn_settled
  \/ signUp_settled

SpecAuth == InitAuth /\ [][NextAuth]_vars

(***************************************************************************)
(* The FormAnalytics page of the form, and the form_submissions table      *)
(* while visitors of public pages submit.  The mount effect sends the      *)
(* queries of loadData and the subscription of the realtime channel; each  *)
(* reaches the store at its own time.                                      *)
(***************************************************************************)
MaxSubmissions == 2

\* another form, whose submissions the page neither queries nor hears of
otherForm == "form2"

InitAnalytics ==
  /\ forms = {Form(formId, TRUE, Null), Form(otherForm, TRUE, Null)}
  /\ form_fields = <<>>
  /\ form_submissions \in {<<>>, <<Submission(SubmissionIds[1], formId, <<>>)>>}
  /\ submissions = <<>>
  /\ analyticsPc = "start"
  /\ snapshot = <<>>
  /\ subscribed = FALSE
  /\ notifications = <<>>
  /\ EvalIdle
  /\ EditorIdle
  /\ EdgeIdle
  /\ PublicIdle
  /\ BuilderIdle
  /\ AuthIdle
  /\ IndexIdle

\* the rows of a form, newest first
RECURSIVE newestFirst(_, _)
newestFirst(rows, id) ==
  IF rows = <<>> THEN <<>>
  ELSE newestFirst(Tail(rows), id)
       \o (IF Head(rows).form_id = id THEN <<Head(rows)>> ELSE <<>>)

\* the store runs the form_submissions query of loadData, or fails it
loadData_query ==
  /\ analyticsPc = "start"
  /\ \/ /\ analyticsPc' = "queried"
        /\ snapshot' = newestFirst(form_submissions, formId)
     \/ /\ analyticsPc' = "rejected"
        /\ UNCHANGED snapshot
  /\ UNCHANGED <<submissions, subscribed, notifications>>
  /\ UNCHANGED <<storeVars, notAnalyticsVars>>

\* the rest of loadData once the queries have settled
loadData_settled ==
  /\ analyticsPc \in {"queried", "rejected"}
  /\ IF analyticsPc = "queried"
       THEN submissions' = snapshot /\ analyticsPc' = "done"
       ELSE UNCHANGED submissions /\ analyticsPc' = "failed"
  /\ UNCHANGED <<snapshot, subscribed, notifications>>
  /\ UNCHANGED <<storeVars, notAnalyticsVars>>

\* the store registers the subscription of the channel
subscribe ==
  /\ ~subscribed
  /\ subscribed' = TRUE
  /\ UNCHANGED <<submissions, analyticsPc, snapshot, notifications>>
  /\ UNCHANGED <<storeVars, notAnalyticsVars>>

\* a visitor's insert reaches the table; the store notifies the channel of
\* the rows of its form
insertSubmission ==
  /\ Len(form_submissions) < MaxSubmissions
  /\ \E f \in forms :
       LET row == Submission(SubmissionIds[Len(form_submissions) + 1], f.id, <<>>)
       IN /\ form_submissions' = Append(form_submissions, row)
          /\ notifications' = IF subscribed /\ f.id = formId
                                THEN Append(notifications, row)
                                ELSE notifications
  /\ UNCHANGED <<forms, form_fields>>
  /\ UNCHANGED <<submissions, analyticsPc, snapshot, subscribed>>
  /\ UNCHANGED notAnalyticsVars

\* the channel's handler runs for the oldest notification
onInsert ==
  /\ notifications # <<>>
  /\ submissions' = <<Head(notifications)>> \o submissions
  /\ notifications' = Tail(notifications)
  /\ UNCHANGED <<analyticsPc, snapshot, subscribed>>
  /\ UNCHANGED <<storeVars, notAnalyticsVars>>

NextAnalytics ==
  \/ loadData_query
  \/ loadData_settled
  \/ subscribe
  \/ insertSubmission
  \/ onInsert

SpecAnalytics == InitAnalytics /\ [][NextAnalytics]_vars

(***************************************************************************)
(* The Index page and the three tables.  handleGenerate runs in three      *)
(* awaited steps; FormsList deletes forms; builders and public pages,      *)
(* possibly opened before a form was deleted, insert fields and            *)
(* submissions.  currentFormId is "" while it is null.                     *)
(***************************************************************************)
MaxForms == 2
MaxRows == 3

\* the ids the store gives to forms rows, in the order of insertion
FormIds == <<formId, otherForm, "form3", "form4">>

blank == <<" ">>

\* String.prototype.trim
RECURSIVE trim(_)
trim(s) ==
  IF s = <<>> THEN s
  ELSE IF Head(s) = " " THEN trim(Tail(s))
  ELSE IF s[Len(s)] = " " THEN trim(SubSeq(s, 1, Len(s) - 1))
  ELSE s

\* what functions.invoke resolves to: an error, or data with these fields
AiAnswers ==
  {[aiError |-> TRUE, fields |-> Undefined]}
  \cup [aiError : {FALSE}, fields : {Undefined, Str(oops), Arr(1), Arr(2)}]

\* the number of rows of a table that reference the form
countOf(rows, f) == Cardinality({i \in 1..Len(rows) : rows[i].form_id = f})

\* the k-th row a form gets in form_fields
FieldRow(f, k, name) == [Row(<<f, k>>, name, FALSE, k, Null) EXCEPT !.form_id = f]

\* fieldsToInsert: one row for each element of aiData.fields
fieldsToInsert(f, n) == [i \in 1..n |-> FieldRow(f, i - 1, "generated")]

\* REFERENCES public.forms(id): the form a new row names exists
references(f) == \E row \in forms : row.id = f

InitIndex ==
  /\ forms = {}
  /\ form_fields = <<>>
  /\ form_submissions = <<>>
  /\ formName = Str(<<>>)
  /\ isGenerating = FALSE
  /\ currentFormId = ""
  /\ runs = <<>>
  /\ indexToast = NoToast
  /\ created = 0
  /\ EvalIdle
  /\ EditorIdle
  /\ EdgeIdle
  /\ PublicIdle
  /\ BuilderIdle
  /\ AuthIdle
  /\ AnalyticsIdle

setFormName ==
  /\ \E name \in {<<>>, blank, Survey} : formName' = Str(name)
  /\ UNCHANGED <<isGenerating, currentFormId, runs, indexToast, created>>
  /\ UNCHANGED <<storeVars, notIndexVars>>

\* handleGenerate up to its first await, started by a click or by a key
handleGenerate(by) ==
  /\ Len(runs) + created < MaxForms
  /\ IF trim(formName.s) = <<>>
       THEN /\ indexToast' = Toast("Form name required",
                                   "Please enter a name for your form")
            /\ UNCHANGED <<isGenerating, runs>>
       ELSE /\ isGenerating' = TRUE
            /\ runs' = Append(runs, [by |-> by, pc |-> "invoke", fields |-> Undefined,
                                  form_id |-> ""])
            /\ UNCHANGED indexToast
  /\ UNCHANGED <<formName, currentFormId, created>>
  /\ UNCHANGED <<storeVars, notIndexVars>>

\* the Generate button, disabled while isGenerating
onClick == ~isGenerating /\ handleGenerate("click")

\* a key in the name input, which is never disabled
onKeyDown == \E key \in {"Enter", "a"} : key = "Enter" /\ handleGenerate(key)

withoutRun(i) == SubSeq(runs, 1, i - 1) \o SubSeq(runs, i + 1, Len(runs))

\* the catch and finally blocks of run i
caught(i, message) ==
  /\ indexToast' = Toast("Generation failed", message)
  /\ isGenerating' = FALSE
  /\ runs' = withoutRun(i)
  /\ UNCHANGED <<formName, currentFormId>>

\* run i after await functions.invoke: throws, or sends the forms insert
handleGenerate_invoked ==
  /\ \E i \in 1..Len(runs), aiData \in AiAnswers :
       /\ runs[i].pc = "invoke"
       /\ IF aiData.aiError
            THEN caught(i, "aiError.message")
          ELSE IF ~(aiData.fields.t = "array" \/ Truthy(aiData.fields))
            THEN caught(i, "No fields generated")
          ELSE /\ runs' = [runs EXCEPT ![i] = [@ EXCEPT !.pc = "forms.insert",
                                                         !.fields = aiData.fields]]
               /\ UNCHANGED <<formName, isGenerating, currentFormId, indexToast>>
  /\ UNCHANGED created
  /\ UNCHANGED <<storeVars, notIndexVars>>

\* the store runs the forms insert of run i, or rejects it; then the run
\* maps aiData.fields and sends the form_fields insert
handleGenerate_formInserted ==
  /\ \E i \in 1..Len(runs), formError \in BOOLEAN :
       /\ runs[i].pc = "forms.insert"
       /\ IF formError
            THEN /\ caught(i, "formError.message")
                 /\ UNCHANGED <<forms, created>>
          ELSE /\ forms' = forms \cup {Form(FormIds[created + 1], TRUE, Null)}
               /\ created' = created + 1
               /\ IF runs[i].fields.t # "array"
                    THEN caught(i, "aiData.fields.map is not a function")
                    ELSE /\ runs' = [runs EXCEPT ![i] =
                                       [@ EXCEPT !.pc = "form_fields.insert",
                                                 !.form_id = FormIds[created + 1]]]
                         /\ UNCHANGED <<formName, isGenerating, currentFormId,
                                        indexToast>>
  /\ UNCHANGED <<form_fields, form_submissions>>
  /\ UNCHANGED notIndexVars

\* the store runs the form_fields insert of run i, or rejects it; then the
\* rest of handleGenerate
handleGenerate_fieldsInserted ==
  /\ \E i \in 1..Len(runs), fieldsError \in BOOLEAN :
       /\ runs[i].pc = "form_fields.insert"
       /\ IF fieldsError \/ ~references(runs[i].form_id)
            THEN /\ caught(i, "fieldsError.message")
                 /\ UNCHANGED form_fields
            ELSE /\ form_fields' =
                      form_fields \o fieldsToInsert(runs[i].form_id, runs[i].fields.n)
                 /\ indexToast' = Toast("Form generated!", "Created fields")
                 /\ currentFormId' = runs[i].form_id
                 /\ formName' = Str(<<>>)
                 /\ isGenerating' = FALSE
                 /\ runs' = withoutRun(i)
  /\ UNCHANGED <<forms, form_submissions, created>>
  /\ UNCHANGED notIndexVars

\* ON DELETE CASCADE: a table without the rows of the form
cascade_KeepsRows(rows, f) == rows

cascade(rows, f) == SelectSeq(rows, LAMBDA row : row.form_id # f)

\* FormsList.deleteForm, for a form the list shows: the store deletes the
\* forms row and the rows that reference it, or rejects the delete
deleteForm ==
  /\ \E f \in {FormIds[k] : k \in 1..created}, error \in BOOLEAN :
       IF error
         THEN /\ indexToast' = Toast("Error", "Failed to delete form")
              /\ UNCHANGED storeVars
         ELSE /\ forms' = {row \in forms : row.id # f}
              /\ form_fields' = cascade(form_fields, f)
              /\ form_submissions' = cascade(form_submissions, f)
              /\ indexToast' = Toast("Form deleted",
                                     "Form and its fields have been removed")
  /\ UNCHANGED <<formName, isGenerating, currentFormId, runs, created>>
  /\ UNCHANGED notIndexVars

\* the insert of FormBuilder.addField, from a builder opened on a form
insertField ==
  /\ \E f \in {FormIds[k] : k \in 1..created} :
       /\ countOf(form_fields, f) < MaxRows
       /\ references(f)
       /\ form_fields' =
            Append(form_fields, FieldRow(f, countOf(form_fields, f), "field_now"))
  /\ UNCHANGED <<forms, form_submissions>>
  /\ UNCHANGED indexVars
  /\ UNCHANGED notIndexVars

\* the insert of PublicForm.handleSubmit, from a page opened on a form
insertSubmissionOf ==
  /\ Len(form_submissions) < MaxSubmissions
  /\ \E f \in {FormIds[k] : k \in 1..created} :
       /\ references(f)
       /\ form_submissions' =
            Append(form_submissions,
                   Submission(<<f, countOf(form_submissions, f)>>, f, <<>>))
  /\ UNCHANGED <<forms, form_fields>>
  /\ UNCHANGED indexVars
  /\ UNCHANGED notIndexVars

NextIndex ==
  \/ setFormName
  \/ onClick
  \/ onKeyDown
  \/ handleGenerate_invoked
  \/ handleGenerate_formInserted
  \/ handleGenerate_fieldsInserted
  \/ deleteForm
  \/ insertField
  \/ insertSubmissionOf

SpecIndex == InitIndex /\ [][NextIndex]_vars

(***************************************************************************)
(* Vocabulary of the properties                                            *)
(***************************************************************************)
Called == result # Pending

RuleEnabled == logic # Null /\ logic.enabled

\* the rule's sourceFieldId is the id of a field of the collection passed in
Resolvable == \E i \in 1..Len(fields) : fields[i].id = logic.sourceFieldId

\* the current answer of the field the rule names (undefined when untouched)
SourceAnswer ==
  IF field_name[logic.sourceFieldId] \in DOMAIN formData
    THEN formData[field_name[logic.sourceFieldId]]
    ELSE Undefined

WellFormed ==
  /\ logic.operator \in {"equals", "not_equals", "contains", "not_empty"}
  /\ logic.action \in {"show", "hide"}
  /\ IsString(logic.value)

\* the string form of an answer, the empty string when the answer is absent
StringForm(x) == IF x = Undefined THEN <<>> ELSE String(x)

\* an answer that counts as filled in
IsFilled(x) ==
  CASE x.t = "string" -> x.s # <<>>
    [] x.t = "boolean" -> x.b
    [] x.t = "number" -> TRUE
    [] OTHER -> FALSE

(***************************************************************************)
(* Properties                                                              *)
(***************************************************************************)

\* C1: a field whose rule is absent (null) or has enabled = false is visible,
\* whatever the answers, the fields and the rest of the rule are.
C1_NoRuleOrDisabledIsVisible ==
  (Called /\ (logic = Null \/ ~logic.enabled)) => result = Return(TRUE)

\* C1 witness: a disabled rule that would hide the field if it were enabled
\* (hide when subscribe equals "yes", answer "Yes") has been evaluated.
C1_Witness ==
  /\ Called
  /\ logic # Null /\ ~logic.enabled
  /\ logic.action = "hide" /\ logic.operator = "equals"
  /\ logic.sourceFieldId = "f1" /\ logic.value = Str(yes)
  /\ Resolvable
  /\ SourceAnswer = Str(Yes)

\* C2: an enabled rule whose sourceFieldId is the id of no field of the
\* collection (the empty id of a fresh rule included) gives visible, for
\* every answer set, operator, action and value.
C2_UnresolvedSourceIsVisible ==
  (Called /\ RuleEnabled /\ ~Resolvable) => result = Return(TRUE)

\* C2 witness: an enabled show-rule with the empty source id, a value that is
\* no string and a non-empty field collection has been evaluated.
C2_Witness ==
  /\ Called /\ RuleEnabled
  /\ logic.sourceFieldId = "" /\ logic.action = "show"
  /\ logic.operator = "equals" /\ logic.value = Undefined
  /\ Len(fields) = 2
  /\ formData # <<>>

\* C3 (as claimed): every malformed enabled rule with a resolvable source
\* (unknown operator, action neither show nor hide, value not a string)
\* is evaluated without a throw and gives visible.
C3_MalformedInputIsVisible ==
  (Called /\ RuleEnabled /\ Resolvable /\ ~WellFormed) => result = Return(TRUE)

\* C4 (as claimed): with operator equals the condition is the equality of the
\* lower-cased string form of the answer (empty when absent) and the
\* lower-cased rule value, for string, number, boolean and absent answers.
C4_EqualsComparesStringForm ==
  (/\ Called /\ RuleEnabled /\ Resolvable
   /\ logic.operator = "equals" /\ logic.action = "show"
   /\ IsString(logic.value)
   /\ SourceAnswer.t \in {"string", "number", "boolean", "undefined"})
  => result = Return(toLowerCase(StringForm(SourceAnswer)) = toLowerCase(logic.value.s))

\* C5: equals and not_equals compute opposite conditions for the same answer
\* and rule value (the call throws for the one exactly when it throws for
\* the other, which happens when the rule value is no string).
C5_EqualsNotEqualsComplement ==
  (/\ Called /\ RuleEnabled /\ Resolvable
   /\ logic.operator = "equals" /\ logic.action = "show")
  => LET other == evaluateConditionalLogic(
                    [logic EXCEPT !.operator = "not_equals"], formData, fields)
     IN  IF IsString(logic.value)
           THEN result.kind = "return" /\ other = Return(~result.value)
           ELSE result.kind = "throw" /\ other.kind = "throw"

\* C5 witness: equals held case-insensitively (answer true, value "TRUE").
C5_Witness ==
  /\ Called /\ RuleEnabled /\ Resolvable
  /\ logic.operator = "equals" /\ logic.action = "show"
  /\ SourceAnswer = Bool(TRUE) /\ logic.value = Str(TRUEText)
  /\ result = Return(TRUE)

\* C6: with operator not_empty the condition is true for a non-empty string,
\* boolean true and every number (0 included), and false exactly for
\* undefined, null, the empty string and boolean false.
C6_NotEmptyCondition ==
  (/\ Called /\ RuleEnabled /\ Resolvable
   /\ logic.operator = "not_empty" /\ logic.action = "show")
  => /\ result = Return(IsFilled(SourceAnswer))
     /\ result = Return(FALSE) <=>
          SourceAnswer \in {Undefined, Null, Str(<<>>), Bool(FALSE)}

\* C6 witness: the number 0 counted as filled in.
C6_Witness ==
  /\ Called /\ RuleEnabled /\ Resolvable
  /\ logic.operator = "not_empty" /\ logic.action = "show"
  /\ SourceAnswer = Num(0)
  /\ result = Return(TRUE)

\* C7 (as claimed): with operator contains the condition is that the
\* lower-cased rule value is a substring of the lower-cased string form of
\* the answer, for string, number and boolean answers.
C7_ContainsSearchesStringForm ==
  (/\ Called /\ RuleEnabled /\ Resolvable
   /\ logic.operator = "contains" /\ logic.action = "show"
   /\ IsString(logic.value)
   /\ SourceAnswer.t \in {"string", "number", "boolean"})
  => result = Return(includes(toLowerCase(String(SourceAnswer)),
                              toLowerCase(logic.value.s)))

\* C8: for an enabled rule with a resolvable source, the result with action
\* hide is the negation of the result with action show, all else equal
\* (when the rule value is no string both calls throw).
C8_HideNegatesShow ==
  (Called /\ RuleEnabled /\ Resolvable /\ logic.action = "show")
  => LET hidden == evaluateConditionalLogic(
                     [logic EXCEPT !.action = "hide"], formData, fields)
     IN  IF result.kind = "return"
           THEN hidden = Return(~result.value)
           ELSE hidden.kind = "throw"

\* C8 witness: a show-rule whose condition held ("Blue Whale" contains "whale").
C8_Witness ==
  /\ Called /\ RuleEnabled /\ Resolvable
  /\ logic.action = "show" /\ logic.operator = "contains"
  /\ SourceAnswer = Str(BlueWhale) /\ logic.value = Str(whale)
  /\ result = Return(TRUE)

\* C9: an enabled not_empty rule whose source field was never answered (its
\* name is no key of the answer set) hides the field under show and shows it
\* under hide.
C9_UntouchedSourceIsEmpty ==
  (/\ Called /\ RuleEnabled /\ Resolvable
   /\ logic.operator = "not_empty"
   /\ field_name[logic.sourceFieldId] \notin DOMAIN formData)
  => /\ logic.action = "show" => result = Return(FALSE)
     /\ logic.action = "hide" => result = Return(TRUE)

\* C9 witness: source f2 untouched while another field is answered, action hide.
C9_Witness ==
  /\ Called /\ RuleEnabled /\ Resolvable
  /\ logic.operator = "not_empty" /\ logic.action = "hide"
  /\ logic.sourceFieldId = "f2"
  /\ DOMAIN formData = {"subscribe"}
  /\ result = Return(TRUE)

\* C11: a call of the evaluator leaves the rule, the field collection and the
\* answer set exactly as they were before the call, for every input.
C11_CallLeavesInputsUnchanged ==
  [][(result = Pending /\ result' # Pending)
       => (logic' = logic /\ fields' = fields /\ formData' = formData)]_vars

\* C11 witness: a call has been made that read all three inputs (enabled
\* rule, resolved source, one of two field names still unanswered).
C11_Witness ==
  /\ Called /\ RuleEnabled /\ Resolvable
  /\ logic.operator = "not_equals" /\ logic.value = Str(yes)
  /\ Len(fields) = 2
  /\ DOMAIN formData = {"color"}

\* C13: with operator not_empty the result does not depend on the rule's
\* value: the same call with any other value, a missing one included, gives
\* the same result, for every answer set and field collection.
C13_NotEmptyIgnoresValue ==
  (Called /\ RuleEnabled /\ logic.operator = "not_empty")
  => \A v \in RuleValues :
       evaluateConditionalLogic([logic EXCEPT !.value = v], formData, fields) = result

\* C13 witness: a not_empty rule without a value found its source answered.
C13_Witness ==
  /\ Called /\ RuleEnabled /\ Resolvable
  /\ logic.operator = "not_empty" /\ logic.action = "show"
  /\ logic.value = Undefined
  /\ SourceAnswer = Str(no)
  /\ result = Return(TRUE)

\* C19: starting from a rule whose source is empty or another field, no
\* sequence of editor operations passes onUpdate a rule whose sourceFieldId
\* is the edited field's own id (nor does the prop ever hold one), and the
\* editor renders nothing when no other field exists.
C19_EditorNeverSelfReferences ==
  /\ onUpdated # Null => onUpdated.sourceFieldId # fieldId
  /\ conditionalLogic # Null => conditionalLogic.sourceFieldId # fieldId
  /\ (\A i \in 1..Len(otherFields) : otherFields[i].id = fieldId) => ~EditorRenders

\* C19 witness: the source select has been used while the edited field
\* itself was among the fields handed to the editor.
C19_Witness ==
  /\ fieldId = "f1"
  /\ otherFields = <<Field("f1"), Field("f2")>>
  /\ onUpdated # Null
  /\ onUpdated.sourceFieldId = "f2"
  /\ onUpdated.operator = "contains" /\ onUpdated.action = "hide"

\* the invocation has returned
EdgeDone == edgePc = "done"

\* the failures of an invocation that is not a preflight
NameMissing == req.json = "object" /\ ~Truthy(req.formName)
KeyMissing == ~Truthy(apiKey)
GatewayNotOk == gatewayRequests > 0 /\ ~gatewayAnswer.failed /\ ~ok(gatewayAnswer)
NoToolCall ==
  /\ gatewayRequests > 0 /\ ~gatewayAnswer.failed /\ ok(gatewayAnswer)
  /\ gatewayAnswer.json = "object"
  /\ gatewayAnswer.toolCall \in {"none", "other"}
NoFieldsList ==
  /\ gatewayRequests > 0 /\ ~gatewayAnswer.failed /\ ok(gatewayAnswer)
  /\ gatewayAnswer.json = "object"
  /\ gatewayAnswer.toolCall = "generate_form_fields"
  /\ gatewayAnswer.arguments.fields.t # "array"

\* C14: when the form name is missing, the API key is not configured, the
\* gateway answers 429, 402 or another non-OK status, the answer carries no
\* generate_form_fields tool call, or its arguments do not parse into a
\* fields list, the function responds with a non-2xx status and a JSON body
\* holding an error string, and never with a success response carrying fields.
C14_FailuresAreErrorResponses ==
  (/\ EdgeDone /\ req.method # "OPTIONS"
   /\ NameMissing \/ KeyMissing \/ GatewayNotOk \/ NoToolCall \/ NoFieldsList)
  => \A i \in 1..Len(responses) :
       /\ responses[i].status \notin 200..299
       /\ responses[i].body = "error"

\* C15: one invocation sends at most one request to the gateway, none for an
\* OPTIONS request, a missing form name or a missing API key, and has
\* returned exactly one response when it ends (and none before).
C15_OneRoundTripOneResponse ==
  /\ gatewayRequests <= 1
  /\ (req.method = "OPTIONS" \/ NameMissing \/ KeyMissing) => gatewayRequests = 0
  /\ EdgeDone => Len(responses) = 1
  /\ ~EdgeDone => Len(responses) = 0

\* C15 witness: a gateway answer of 429 has been passed on, after one request
\* and with one response.
C15_Witness ==
  /\ EdgeDone
  /\ gatewayRequests = 1
  /\ gatewayAnswer.status = 429
  /\ Len(responses) = 1
  /\ responses[1].status = 429

\* the answers differ in at most the key k, which the later set holds
ChangesOnlyKey(before, after, k) ==
  /\ DOMAIN after = DOMAIN before \cup {k}
  /\ \A j \in DOMAIN before \ {k} : after[j] = before[j]

\* C16: while a public form is filled, a change of the answers replaces the
\* value under one field name, leaves every other key as it was and writes
\* no form_submissions row; a row is written only by a handleSubmit call
\* under way after the submit event, and it is the single row it appends.
C16_AnswersNotPersistedUntilSubmit ==
  [][/\ pubFormData' # pubFormData
          => /\ form_submissions' = form_submissions
             /\ \E i \in 1..Len(pubFields) :
                  ChangesOnlyKey(pubFormData, pubFormData', pubFields[i].field_name)
     /\ form_submissions' # form_submissions
          => /\ isSubmitting
             /\ pubFormData' = pubFormData
             /\ \E id \in {SubmissionIds[i] : i \in 1..Len(SubmissionIds)} :
                  form_submissions' =
                    Append(form_submissions, Submission(id, formId, submission_data))]_vars

\* C16 witness: both fields have been answered, one of them twice, and
\* nothing has been written.
C16_Witness ==
  /\ FormRendered
  /\ Len(pubFields) = 2
  /\ pubFormData = [k \in FieldNames |-> IF k = "subscribe" THEN Bool(TRUE) ELSE Str(<<>>)]
  /\ form_submissions = <<>>
  /\ ~isSubmitting

\* C12: an enabled rule whose source is the very field it is attached to
\* (the evaluator is handed the rule and the fields, so this is a rule whose
\* source is a field of the collection) gives a boolean without error: the
\* operator evaluated once on that field's answer, then the action applied.
C12_SelfReferenceEvaluatesOnce ==
  (Called /\ RuleEnabled /\ Resolvable)
  => /\ result.kind = "return"
     /\ result.value = applyAction(logic, conditionMet(logic, SourceAnswer).value)

\* the fields of the preview whose enabled rule names a field whose
\* deleteField has succeeded
DependentsOfDeleted ==
  {i \in 1..Len(builderFields) :
     /\ builderFields[i].conditional_logic # Null
     /\ builderFields[i].conditional_logic.enabled
     /\ builderFields[i].conditional_logic.sourceFieldId \in deleted}

\* C17: once deleteField has succeeded for a field, every field whose
\* enabled rule names it as source is visible in the preview on every later
\* render, whatever the answers and the rule's action and operator.
C17_DependentsOfDeletedAreVisible ==
  \A i \in DependentsOfDeleted : isFieldVisible(builderFields[i]) = Return(TRUE)

\* C18: after generation and any sequence of successful addField and
\* deleteField calls, the order_index values of the form's n rows are
\* exactly 0..n-1, none missing and none twice.
C18_OrderIndexDense ==
  /\ {form_fields[i].order_index : i \in 1..Len(form_fields)} = 0..(Len(form_fields) - 1)
  /\ \A i, j \in 1..Len(form_fields) :
       form_fields[i].order_index = form_fields[j].order_index => i = j

\* the fields for which the evaluator returns true
VisibleByEvaluator(rows, data) ==
  {rows[i].id : i \in {j \in 1..Len(rows) :
     evaluateConditionalLogic(rows[j].conditional_logic, data, idAndName(rows))
       = Return(TRUE)}}

\* C20: on every render of the preview and of the public page, the fields
\* presented as active inputs are exactly those for which
\* evaluateConditionalLogic returns true, given the field's rule, the
\* current answers and the form's fields.
C20_RenderFollowsEvaluator ==
  /\ previewInputs = VisibleByEvaluator(builderFields, previewData)
  /\ FormRendered => publicInputs = VisibleByEvaluator(pubFields, pubFormData)

\* an answer the validation of the public page must refuse for a required
\* field: absent, the empty string, or false
Unanswered(data, name) ==
  \/ name \notin DOMAIN data
  \/ data[name] = Str(<<>>)
  \/ data[name] = Bool(FALSE)

\* the required fields of the page, in order, whose answer is unanswered
UnansweredRequired(data) ==
  {i \in 1..Len(pubFields) : pubFields[i].required /\ Unanswered(data, pubFields[i].field_name)}

\* C26: handleSubmit issues no insert while a required field has an absent,
\* empty-string or false answer; it reports the first such field in the
\* order of the form and leaves the answers and isSubmitted unchanged.
C26_RequiredFieldsBlockSubmit ==
  [][/\ (~isSubmitting /\ isSubmitting') => UnansweredRequired(pubFormData) = {}
     /\ (FormRendered /\ ~isSubmitting /\ pubForm # Null
           /\ UnansweredRequired(pubFormData) # {} /\ pubToast' # pubToast)
          => /\ pubToast'.title = "Validation Error"
             /\ \E i \in UnansweredRequired(pubFormData) :
                  /\ pubToast'.field = pubFields[i].field_name
                  /\ \A j \in UnansweredRequired(pubFormData) : i <= j
             /\ pubFormData' = pubFormData
             /\ isSubmitted' = isSubmitted
             /\ form_submissions' = form_submissions
             /\ ~isSubmitting']_vars

\* C26 witness: the second field of the form is required and was cleared
\* again, the first is answered, and the submit was refused naming the second.
C26_Witness ==
  /\ FormRendered /\ ~isSubmitting
  /\ Len(pubFields) = 2
  /\ ~pubFields[1].required /\ pubFields[2].required
  /\ pubFields[2].field_name \in DOMAIN pubFormData
  /\ pubFormData[pubFields[2].field_name] = Str(<<>>)
  /\ pubToast = [title |-> "Validation Error", field |-> pubFields[2].field_name]
  /\ form_submissions = <<>>

SlugNamesPublicForm ==
  /\ slug.t = "string" /\ slug.s # <<>>
  /\ \E f \in forms : f.public_slug = slug /\ f.is_public

\* C28: the fillable form is shown only for a slug that names a public form;
\* for a missing slug, an unknown slug, a non-public form or a store error
\* loadForm ends in the error state, nothing is submitted or accepted, and
\* isLoading is false once loadForm is over.
C28_OnlyPublicFormsAreShown ==
  /\ FormRendered => (SlugNamesPublicForm /\ rejects = {})
  /\ (isSubmitting \/ isSubmitted \/ form_submissions # <<>>)
       => (SlugNamesPublicForm /\ rejects = {})
  /\ (loadPc = "done" /\ ~(SlugNamesPublicForm /\ rejects = {}))
       => (pubError # Null /\ ~isLoading)
  /\ loadPc = "done" => ~isLoading

\* C28 witness: the slug named a form that is not public and the page ended
\* with the error card.
C28_Witness ==
  /\ loadPc = "done"
  /\ slug = Str(abc)
  /\ forms = {Form(formId, FALSE, Str(abc))}
  /\ rejects = {}
  /\ pubError # Null
  /\ ~isLoading

\* a call has settled in this step
Settles == Cardinality(inFlight') < Cardinality(inFlight)

\* C21: when the store rejects an addField, updateField or deleteField call,
\* an error toast is shown and the local field list (and the table) is as it
\* was before; afterwards the handlers are there as before: whenever a field
\* is listed its delete button and its checkbox accept a call.
C21_RejectedCallLeavesFieldsAlone ==
  /\ [][(Settles /\ lastAnswer' = "error")
          => /\ builderToast'.title = "Error"
             /\ builderToast'.field \in {"Failed to add field", "Failed to update field",
                                         "Failed to delete field"}
             /\ builderFields' = builderFields
             /\ form_fields' = form_fields]_vars
  /\ []((anyRejected /\ Cardinality(inFlight) < MaxInFlight /\ builderFields # <<>>)
          => (ENABLED deleteField /\ ENABLED updateField))

\* C21 witness: a delete was rejected while another call was under way, and
\* both fields are still listed.
C21_Witness ==
  /\ lastAnswer = "error"
  /\ builderToast = Toast("Error", "Failed to delete field")
  /\ Len(builderFields) = 2
  /\ inFlight # {}

\* the rows of a list, as a set
RowsOf(rows) == {rows[i] : i \in 1..Len(rows)}

\* C22: once every call has settled, and the store accepted them all, the
\* local field list holds the persisted rows of the form, whatever the
\* interleaving of the calls was.
C22_LocalEqualsPersisted ==
  (inFlight = {} /\ ~anyRejected)
  => (RowsOf(builderFields) = RowsOf(form_fields) /\ Len(builderFields) = Len(form_fields))

(***************************************************************************)
(* The Auth page                                                           *)
(***************************************************************************)
\* a valid email of at most 255 characters and a password of 6 to 72
PassesSchema(e, p) == e.valid /\ e.length <= 255 /\ p >= 6 /\ p <= 72

\* C30: a signIn or signUp call is under way only for an email and a
\* password that pass the schema, and isLoading holds exactly while one is:
\* a submit of values that fail the schema starts no call and leaves
\* isLoading false, and a call that settles, however it does, leaves it false.
C30_AuthCallsOnlyValidated ==
  /\ [](authCall # NoCall => PassesSchema(authCall.email, authCall.password))
  /\ [](authLoading <=> authCall # NoCall)
  /\ [][(authCall = NoCall /\ ~PassesSchema(authEmail, authPassword))
          => (authCall' = NoCall /\ ~authLoading')]_vars
  /\ [][(authCall # NoCall /\ authCall' # authCall)
          => (authCall' = NoCall /\ ~authLoading')]_vars

\* C30 witness: a sign-in call was made and failed, and isLoading is false
C30_Witness ==
  /\ authToast.title = "Login Failed"
  /\ authCall = NoCall
  /\ ~authLoading

(***************************************************************************)
(* The FormAnalytics page                                                  *)
(***************************************************************************)
\* the ids of the persisted submissions of the form
PersistedIds ==
  { form_submissions[i].id :
      i \in { j \in 1..Len(form_submissions) : form_submissions[j].form_id = formId } }

\* C25: once loadData has completed, the channel has joined and every
\* notification is delivered, the submissions list holds every persisted
\* submission of the form exactly once.
C25_EverySubmissionListedOnce ==
  (analyticsPc = "done" /\ subscribed /\ notifications = <<>>)
    => /\ { submissions[i].id : i \in 1..Len(submissions) } = PersistedIds
       /\ Len(submissions) = Cardinality(PersistedIds)

(***************************************************************************)
(* The Index page and the tables                                           *)
(***************************************************************************)
\* a handleGenerate run that has inserted the form is still under way
Generating(f) == \E i \in 1..Len(runs) : runs[i].form_id = f

\* C23: once the handleGenerate run that inserted a form has finished, the
\* form has its generated field rows: no forms row is left without fields.
C23_GenerateIsAllOrNothing ==
  \A row \in forms : ~Generating(row.id) => countOf(form_fields, row.id) > 0

\* C24: at most one handleGenerate run is under way, and isGenerating holds
\* exactly while one is.
C24_OneGenerationAtATime ==
  /\ Len(runs) <= 1
  /\ isGenerating <=> runs # <<>>

\* C29: every form_fields row and every form_submissions row references an
\* existing form.
C29_RowsReferenceExistingForms ==
  /\ \A i \in 1..Len(form_fields) : references(form_fields[i].form_id)
  /\ \A i \in 1..Len(form_submissions) : references(form_submissions[i].form_id)

\* C29 witness: the form the page generated last, with its fields, has been
\* deleted, and the tables still hold fields and submissions of another form
C29_Witness ==
  /\ currentFormId # ""
  /\ ~references(currentFormId)
  /\ indexToast.title = "Form deleted"
  /\ form_fields # <<>>
  /\ form_submissions # <<>>
====
